---------------------------- MODULE Spec2Model ----------------------------
(***************************************************************************)
(* Model of src/rust/src/error.rs: the CryptographyError union, the From   *)
(* conversions into it, add_location, and the conversion of a              *)
(* CryptographyError into a pyo3::PyErr.                                    *)
(*                                                                         *)
(* One behaviour follows one error value: it is created by one of the From *)
(* conversions, enriched by add_location zero or more times, and consumed  *)
(* once by From<CryptographyError> for PyErr.  The OpenSSL arm of that     *)
(* conversion talks to the Python runtime; every lookup or call it makes   *)
(* is one step, and each can fail, in which case `expect` panics and the   *)
(* stack unwinds.                                                          *)
(***************************************************************************)
EXTENDS Naturals, Sequences, FiniteSets

VARIABLES
    pc,        \* position: "start", "held", a step of the OpenSSL arm, "done", "panicked"
    err,       \* the CryptographyError value currently owned
    missing,   \* host runtime: modules, attributes, methods that fail to resolve or raise
    badCodes,  \* host runtime: codes for which _OpenSSLError.from_code raises
    gil0,      \* GIL depth of this thread when the error value is created
    gil,       \* current GIL depth of this thread
    calls,     \* host lookups and calls made so far by the OpenSSL arm, in order
    errors,    \* the PyList `errors` built by the OpenSSL arm
    i,         \* index of the next entry of error_stack.errors() to convert
    cur,       \* <<>> or <<o>>: the object from_code / from_err returned last
    result,    \* <<>> or <<p>>: the PyErr returned
    panicMsg,  \* <<>> or <<m>>: the message of the panic that ended the conversion
    domain,    \* history: the domain the error value was converted from
    orig,      \* history: the CryptographyError value as first created
    locs       \* history: the locations passed to add_location, in order

vars == <<pc, err, missing, badCodes, gil0, gil, calls, errors, i, cur, result,
          panicMsg, domain, orig, locs>>

---------------------------------------------------------------------------
(* Bounds of the model *)

MaxPath == 2        \* longest location path of an asn1::ParseError when converted
MaxAdds == 2        \* add_location calls on one error value
MaxStack == 2       \* entries of an openssl ErrorStack
MaxMissing == 2     \* host facilities that are broken at once

---------------------------------------------------------------------------
(* Values of the collaborating crates *)

Locations == {"field:signature", "field:certificate"}
ParseKinds == {"InvalidValue", "ShortData"}
StackEntries == {[code |-> 101, text |-> "bad padding"],
                 [code |-> 202, text |-> "key mismatch"]}
Codes == {e.code : e \in StackEntries}
PemErrors == {"MalformedFraming", "MissingData"}

SeqsUpTo(S, n) == UNION {[1..k -> S] : k \in 0..n}

\* A PyErr: exception class, the literal pieces of its message, the values
\* formatted into the message, and the constructor arguments after the message.
PyErrOf(cls, msg, fmtargs, args) ==
    [cls |-> cls, msg |-> msg, fmtargs |-> fmtargs, args |-> args]

HostPyErrs == {PyErrOf("ValueError", <<"Error!">>, <<>>, <<>>),
               PyErrOf("KeyError", <<"missing">>, <<>>, <<>>)}
DowncastErrors == {[from |-> "NoneType", to |-> "abc"]}

NoPy == PyErrOf("", <<>>, <<>>, <<>>)

---------------------------------------------------------------------------
(* enum CryptographyError *)

Asn1Parse(e) == [tag |-> "Asn1Parse", kind |-> e.kind, path |-> e.path,
                 py |-> NoPy, stack |-> <<>>]
Asn1Write(e) == [tag |-> "Asn1Write", kind |-> e, path |-> <<>>,
                 py |-> NoPy, stack |-> <<>>]
Py(e) == [tag |-> "Py", kind |-> "", path |-> <<>>, py |-> e, stack |-> <<>>]
OpenSSL(e) == [tag |-> "OpenSSL", kind |-> "", path |-> <<>>, py |-> NoPy, stack |-> e]
NoErr == [tag |-> "None", kind |-> "", path |-> <<>>, py |-> NoPy, stack |-> <<>>]

ParseErrorOf(e) == [kind |-> e.kind, path |-> e.path]

---------------------------------------------------------------------------
(* The From conversions into CryptographyError *)

FromParseError(e) == Asn1Parse(e)
FromWriteError(e) == Asn1Write(e)
FromPyErr(e) == Py(e)

\* pyo3's PyDowncastError -> PyErr: a TypeError naming both types
DowncastIntoPyErr(e) ==
    PyErrOf("TypeError", <<"'", "' object cannot be converted to '", "'">>,
            <<e.from, e.to>>, <<>>)
FromPyDowncastError(e) == Py(DowncastIntoPyErr(e))
\* mutant: the error stack lands in the host-exception variant
FromErrorStack_asPy(e) == Py(NoPy)
FromErrorStack(e) == OpenSSL(e)

PemUrl == "https://cryptography.io/en/latest/faq/#why-can-t-i-import-my-pem-file"
\* mutant: the message loses its documentation reference
FromPemError_plain(e) ==
    Py(PyErrOf("ValueError", <<"Unable to load PEM file. ">>, <<e>>, <<>>))
FromPemError(e) ==
    Py(PyErrOf("ValueError",
               <<"Unable to load PEM file. See ", PemUrl, " for more details. ">>,
               <<e>>, <<>>))

---------------------------------------------------------------------------
(* add_location *)

\* asn1::ParseError::add_location: the append operation of the location path
ParseError_add_location(e, loc) == [kind |-> e.kind, path |-> Append(e.path, loc)]

\* mutant: the location is not recorded
add_location_drops(self, loc) == self
\* mutant: the OpenSSL arm rebuilds its payload from the (drained) backend stack
add_location_redrains(self, loc) ==
    CASE self.tag = "Py" -> Py(self.py)
      [] self.tag = "Asn1Parse" ->
            Asn1Parse(ParseError_add_location(ParseErrorOf(self), loc))
      [] self.tag = "Asn1Write" -> Asn1Write(self.kind)
      [] self.tag = "OpenSSL" -> OpenSSL(<<>>)
add_location(self, loc) ==
    CASE self.tag = "Py" -> Py(self.py)
      [] self.tag = "Asn1Parse" ->
            Asn1Parse(ParseError_add_location(ParseErrorOf(self), loc))
      [] self.tag = "Asn1Write" -> Asn1Write(self.kind)
      [] self.tag = "OpenSSL" -> OpenSSL(self.stack)

---------------------------------------------------------------------------
(* From<CryptographyError> for PyErr: the arms that need no host lookup *)

AllocationError == "AllocationError"
WriteErrors == {AllocationError}

ParseArm(e) ==
    PyErrOf("ValueError", <<"error parsing asn1 value: ">>, <<ParseErrorOf(e)>>, <<>>)
\* mutant: the allocation failure is reported as a value error
WriteArm_value(e) ==
    PyErrOf("ValueError",
            <<"failed to allocate memory while performing ASN.1 serialization">>,
            <<>>, <<>>)
WriteArm(e) ==
    PyErrOf("MemoryError",
            <<"failed to allocate memory while performing ASN.1 serialization">>,
            <<>>, <<>>)
PyArm(e) == e.py

LazyArm(e) ==
    CASE e.tag = "Asn1Parse" -> ParseArm(e)
      [] e.tag = "Asn1Write" -> WriteArm(e)
      [] e.tag = "Py" -> PyArm(e)

---------------------------------------------------------------------------
(* From<CryptographyError> for PyErr: the OpenSSL arm *)

ExceptionsModule == "cryptography.exceptions"
BindingModule == "cryptography.hazmat.bindings.openssl.binding"
Facilities == {ExceptionsModule, "InternalError", BindingModule, "_OpenSSLError",
               "_OpenSSLErrorWithText", "from_err", "append", "InternalError()"}

InternalErrorMsg == "Unknown OpenSSL error. This error is commonly encountered when another library is not cleaning up the OpenSSL error stack. [...]"

\* the objects the host returns
from_code(code) == [type |-> "_OpenSSLError", of |-> <<code>>]
from_err(o) == [type |-> "_OpenSSLErrorWithText", of |-> <<o>>]

\* does the host lookup or call succeed
Resolves(fac) == fac \notin missing
FromCodeOk(code) == code \notin badCodes

\* Python::acquire_gil and the drop of the GILGuard
acquire_gil(g) == g + 1
\* mutant: the guard is forgotten instead of dropped
GILGuard_drop_leak(g) == g
GILGuard_drop(g) == g - 1

\* Result::expect: the next position, or the panic
\* mutant: the error of the lookup is ignored
ExpectPc_ignore(ok, next) == next
\* mutant: the check is inverted for a successful lookup
ExpectPc_always(ok, next) == "panicked"
ExpectPc(ok, next) == IF ok THEN next ELSE "panicked"

Expect(ok, msg, next) ==
    /\ pc' = ExpectPc(ok, next)
    /\ IF ok
         THEN UNCHANGED <<gil, panicMsg>>
         ELSE /\ panicMsg' = <<msg>>
              /\ gil' = GILGuard_drop(gil)      \* unwinding drops `gil`

\* where the loop over error_stack.errors() goes next
\* mutant: the loop stops one entry early
LoopPc_short(k, stack) == IF k < Len(stack) THEN "from_code" ELSE "new_InternalError"
LoopPc(k, stack) == IF k <= Len(stack) THEN "from_code" ELSE "new_InternalError"

\* one entry of the log of host lookups and calls
Call(fn, arg) == [fn |-> fn, arg |-> arg]

Lookup(here, fac, msg, next) ==
    /\ pc = here
    /\ calls' = Append(calls, Call(fac, <<>>))
    /\ Expect(Resolves(fac), msg, next)
    /\ UNCHANGED <<err, missing, badCodes, gil0, errors, i, cur, result,
                   domain, orig, locs>>

---------------------------------------------------------------------------
(* The state after construction: no error value yet, any host runtime *)

Init ==
    /\ pc = "start"
    /\ err = NoErr
    /\ missing \in {m \in SUBSET Facilities : Cardinality(m) <= MaxMissing}
    /\ badCodes \in SUBSET Codes
    /\ gil0 \in {0, 1}
    /\ gil = gil0
    /\ calls = <<>>
    /\ errors = <<>>
    /\ i = 1
    /\ cur = <<>>
    /\ result = <<>>
    /\ panicMsg = <<>>
    /\ domain = "none"
    /\ orig = NoErr
    /\ locs = <<>>

---------------------------------------------------------------------------
(* Creating the error value: one action per From impl *)

Created(d, e) ==
    /\ pc = "start"
    /\ pc' = "held"
    /\ err' = e
    /\ orig' = e
    /\ domain' = d
    /\ UNCHANGED <<missing, badCodes, gil0, gil, calls, errors, i, cur, result,
                   panicMsg, locs>>

AbsorbParseError ==
    \E k \in ParseKinds, p \in SeqsUpTo(Locations, MaxPath) :
        Created("asn1::ParseError", FromParseError([kind |-> k, path |-> p]))

AbsorbWriteError ==
    \E e \in WriteErrors : Created("asn1::WriteError", FromWriteError(e))

AbsorbPyErr ==
    \E e \in HostPyErrs : Created("pyo3::PyErr", FromPyErr(e))

AbsorbPyDowncastError ==
    \E e \in DowncastErrors : Created("pyo3::PyDowncastError", FromPyDowncastError(e))

AbsorbErrorStack ==
    \E e \in SeqsUpTo(StackEntries, MaxStack) :
        Created("openssl::error::ErrorStack", FromErrorStack(e))

AbsorbPemError ==
    \E e \in PemErrors : Created("pem::PemError", FromPemError(e))

---------------------------------------------------------------------------
(* Enrichment *)

AddLocation ==
    /\ pc = "held"
    /\ Len(locs) < MaxAdds
    /\ \E loc \in Locations :
          /\ err' = add_location(err, loc)
          /\ locs' = Append(locs, loc)
    /\ UNCHANGED <<pc, missing, badCodes, gil0, gil, calls, errors, i, cur, result,
                   panicMsg, domain, orig>>

---------------------------------------------------------------------------
(* From<CryptographyError> for PyErr *)

\* the Asn1Parse, Asn1Write and Py arms: one expression, no host access
IntoPyErrLazy ==
    /\ pc = "held"
    /\ err.tag \in {"Asn1Parse", "Asn1Write", "Py"}
    /\ result' = <<LazyArm(err)>>
    /\ pc' = "done"
    /\ UNCHANGED <<err, missing, badCodes, gil0, gil, calls, errors, i, cur,
                   panicMsg, domain, orig, locs>>

\* the OpenSSL arm, line by line
AcquireGil ==
    /\ pc = "held"
    /\ err.tag = "OpenSSL"
    /\ gil' = acquire_gil(gil)
    /\ pc' = "import_exceptions"
    /\ UNCHANGED <<err, missing, badCodes, gil0, calls, errors, i, cur, result,
                   panicMsg, domain, orig, locs>>

ImportExceptions ==
    Lookup("import_exceptions", ExceptionsModule,
           "Failed to import cryptography module", "get_InternalError")

GetInternalError ==
    Lookup("get_InternalError", "InternalError",
           "Failed to get InternalError attribute", "import_binding")

ImportBinding ==
    Lookup("import_binding", BindingModule,
           "Failed to import cryptography module", "get_OpenSSLError")

GetOpenSSLError ==
    Lookup("get_OpenSSLError", "_OpenSSLError",
           "Failed to get _OpenSSL attribute", "get_OpenSSLErrorWithText")

GetOpenSSLErrorWithText ==
    Lookup("get_OpenSSLErrorWithText", "_OpenSSLErrorWithText",
           "Failed to get _OpenSSLErrorWithText attribute", "list_empty")

ListEmpty ==
    /\ pc = "list_empty"
    /\ errors' = <<>>
    /\ i' = 1
    /\ pc' = LoopPc(1, err.stack)
    /\ UNCHANGED <<err, missing, badCodes, gil0, gil, calls, cur, result,
                   panicMsg, domain, orig, locs>>

CallFromCode ==
    /\ pc = "from_code"
    /\ calls' = Append(calls, Call("from_code", <<err.stack[i].code>>))
    /\ cur' = IF FromCodeOk(err.stack[i].code)
                THEN <<from_code(err.stack[i].code)>> ELSE cur
    /\ Expect(FromCodeOk(err.stack[i].code), "Failed to call from_code", "from_err")
    /\ UNCHANGED <<err, missing, badCodes, gil0, errors, i, result,
                   domain, orig, locs>>

CallFromErr ==
    /\ pc = "from_err"
    /\ calls' = Append(calls, Call("from_err", <<>>))
    /\ cur' = IF Resolves("from_err") THEN <<from_err(cur[1])>> ELSE cur
    /\ Expect(Resolves("from_err"), "Failed to call from_err", "append")
    /\ UNCHANGED <<err, missing, badCodes, gil0, errors, i, result,
                   domain, orig, locs>>

ListAppend ==
    /\ pc = "append"
    /\ calls' = Append(calls, Call("append", <<>>))
    /\ errors' = IF Resolves("append") THEN Append(errors, cur[1]) ELSE errors
    /\ i' = IF Resolves("append") THEN i + 1 ELSE i
    /\ Expect(Resolves("append"), "List append failed", LoopPc(i + 1, err.stack))
    /\ UNCHANGED <<err, missing, badCodes, gil0, cur, result, domain, orig, locs>>

NewInternalError ==
    /\ pc = "new_InternalError"
    /\ calls' = Append(calls, Call("InternalError()", <<>>))
    /\ Expect(Resolves("InternalError()"), "Failed to create InternalError", "return")
    /\ UNCHANGED <<err, missing, badCodes, gil0, errors, i, cur, result,
                   domain, orig, locs>>

\* PyErr::from_instance, and `gil` goes out of scope
Return ==
    /\ pc = "return"
    /\ result' = <<PyErrOf("InternalError", <<InternalErrorMsg>>, <<>>, <<errors>>)>>
    /\ gil' = GILGuard_drop(gil)
    /\ pc' = "done"
    /\ UNCHANGED <<err, missing, badCodes, gil0, calls, errors, i, cur, panicMsg,
                   domain, orig, locs>>

Next ==
    \/ AbsorbParseError
    \/ AbsorbWriteError
    \/ AbsorbPyErr
    \/ AbsorbPyDowncastError
    \/ AbsorbErrorStack
    \/ AbsorbPemError
    \/ AddLocation
    \/ IntoPyErrLazy
    \/ AcquireGil
    \/ ImportExceptions
    \/ GetInternalError
    \/ ImportBinding
    \/ GetOpenSSLError
    \/ GetOpenSSLErrorWithText
    \/ ListEmpty
    \/ CallFromCode
    \/ CallFromErr
    \/ ListAppend
    \/ NewInternalError
    \/ Return

Spec == Init /\ [][Next]_vars

\* the steps of From<CryptographyError> for PyErr
IntoPyErr ==
    \/ IntoPyErrLazy
    \/ AcquireGil
    \/ ImportExceptions
    \/ GetInternalError
    \/ ImportBinding
    \/ GetOpenSSLError
    \/ GetOpenSSLErrorWithText
    \/ ListEmpty
    \/ CallFromCode
    \/ CallFromErr
    \/ ListAppend
    \/ NewInternalError
    \/ Return

---------------------------------------------------------------------------
(* Properties *)

Last(s) == s[Len(s)]
Contains(s, x) == \E k \in 1..Len(s) : s[k] = x

\* did the host fail this logged lookup or call
Failed(c) == IF c.fn = "from_code" THEN c.arg[1] \in badCodes ELSE c.fn \in missing

OpenSSLSteps == {"import_exceptions", "get_InternalError", "import_binding",
                 "get_OpenSSLError", "get_OpenSSLErrorWithText", "list_empty",
                 "from_code", "from_err", "append", "new_InternalError", "return"}

\* C1: an error created as Asn1Parse stays Asn1Parse with the same parsing
\* error, and its location path is always the path it was created with followed
\* by the locations passed to add_location, in the order they were passed.
C1_AppendOnly ==
    (pc # "start" /\ orig.tag = "Asn1Parse") =>
        /\ err.tag = "Asn1Parse"
        /\ err.kind = orig.kind
        /\ err.path = orig.path \o locs

C1_Witness ==
    /\ pc = "held"
    /\ orig.tag = "Asn1Parse"
    /\ Len(orig.path) = 1
    /\ Len(locs) = 2
    /\ locs[1] # locs[2]
    /\ locs[1] # orig.path[1]

\* C2: an error created as any variant other than Asn1Parse is, after any
\* number of add_location calls, the value it was created as: same variant,
\* same payload.
C2_Identity ==
    (pc # "start" /\ orig.tag # "Asn1Parse") =>
        /\ err.tag = orig.tag
        /\ err = orig

C2_Witness ==
    /\ pc = "held"
    /\ orig.tag = "OpenSSL"
    /\ Len(orig.stack) = 2
    /\ Len(locs) = 2

\* C3: when the conversion of an OpenSSL error with N stack entries returns,
\* the exception is an InternalError whose one payload argument is a list of
\* N entries, the k-th being from_err(from_code(code of the k-th entry)); for
\* N = 0 the list is empty and no record call is made, so none can fail.
C3_RecordList ==
    /\ (pc = "done" /\ orig.tag = "OpenSSL") =>
          /\ Len(result) = 1
          /\ result[1].cls = "InternalError"
          /\ Len(result[1].args) = 1
          /\ Len(result[1].args[1]) = Len(orig.stack)
          /\ \A k \in 1..Len(orig.stack) :
                result[1].args[1][k] = from_err(from_code(orig.stack[k].code))
    /\ (orig.tag = "OpenSSL" /\ Len(orig.stack) = 0) =>
          \A k \in 1..Len(calls) : calls[k].fn \notin {"from_code", "from_err", "append"}

C3_Witness ==
    /\ pc = "done"
    /\ orig.tag = "OpenSSL"
    /\ Len(orig.stack) = 2
    /\ orig.stack[1].code = 101
    /\ orig.stack[2].code = 202
    /\ Len(result[1].args[1]) = 2

\* C4: an Asn1Write(AllocationError) converts to a MemoryError with the fixed
\* message and no further argument, without any host lookup and without a
\* panic, whichever host facilities are broken and whether or not the GIL is held.
C4_AllocationIsMemoryError ==
    orig.tag = "Asn1Write" =>
        /\ pc # "panicked"
        /\ calls = <<>>
        /\ pc = "done" =>
              /\ Len(result) = 1
              /\ result[1].cls = "MemoryError"
              /\ result[1].msg =
                    <<"failed to allocate memory while performing ASN.1 serialization">>
              /\ result[1].fmtargs = <<>>
              /\ result[1].args = <<>>

C4_Witness ==
    /\ pc = "done"
    /\ orig.tag = "Asn1Write"
    /\ orig.kind = AllocationError
    /\ missing # {}
    /\ badCodes # {}
    /\ gil0 = 0

\* C5: a PemError becomes the Py variant holding a ValueError whose message
\* contains the documentation URL; add_location leaves it as it is and the
\* conversion to PyErr returns exactly that exception, never panicking.
C5_PemIsValueError ==
    (pc # "start" /\ domain = "pem::PemError") =>
        /\ err.tag = "Py"
        /\ err.py.cls = "ValueError"
        /\ Contains(err.py.msg, PemUrl)
        /\ pc # "panicked"
        /\ pc = "done" => result = <<err.py>>

C5_Witness ==
    /\ pc = "done"
    /\ domain = "pem::PemError"
    /\ Len(locs) = 2
    /\ Len(result) = 1

\* the variant of CryptographyError dedicated to each domain
DedicatedVariant(d) ==
    CASE d = "asn1::ParseError" -> "Asn1Parse"
      [] d = "asn1::WriteError" -> "Asn1Write"
      [] d = "openssl::error::ErrorStack" -> "OpenSSL"
      [] d = "pyo3::PyErr" -> "Py"
      [] d = "pyo3::PyDowncastError" -> "Py"

\* C6: a value converted from a parsing error is Asn1Parse, from an encoding
\* error Asn1Write (still AllocationError), from an error stack OpenSSL (the
\* same stack), from a host exception or a host downcast error Py.
C6_DedicatedVariant ==
    (pc # "start" /\ domain # "pem::PemError") =>
        /\ orig.tag = DedicatedVariant(domain)
        /\ err.tag = DedicatedVariant(domain)
        /\ domain = "asn1::WriteError" => orig.kind = AllocationError

C6_Witness ==
    /\ pc = "held"
    /\ domain = "openssl::error::ErrorStack"
    /\ Len(err.stack) = 1
    /\ locs = <<>>

\* C7 as claimed: the conversion never panics, whatever the host runtime.
C7_NeverPanics == pc # "panicked"

\* C7 as amended: a panic happens only in the OpenSSL arm and only at a host
\* lookup or call that failed; until it has returned or panicked the conversion
\* always has a next step, and when it ends otherwise it has returned a PyErr.
C7_PanicsOnlyOnHostFailure ==
    /\ pc = "panicked" =>
          /\ err.tag = "OpenSSL"
          /\ Len(calls) > 0
          /\ Failed(Last(calls))
    /\ pc \in OpenSSLSteps \cup {"held"} => ENABLED IntoPyErr
    /\ pc = "done" => Len(result) = 1

C7_Witness ==
    /\ pc = "panicked"
    /\ Last(calls).fn = "InternalError"
    /\ Len(err.stack) = 0

\* C8: the GIL is held, one level above the caller's, at every step of the
\* OpenSSL arm, and is back at the caller's level once the conversion has
\* returned or panicked.
C8_GilReleased ==
    /\ pc \in OpenSSLSteps => gil = gil0 + 1
    /\ pc \in {"done", "panicked"} => gil = gil0

C8_Witness ==
    /\ pc = "panicked"
    /\ Last(calls).fn = "append"
    /\ gil0 = 1
    /\ gil = 1

\* C10: a failed host lookup or call is the last one made: the conversion is
\* then in its panicked state with a panic message, has returned no PyErr, and
\* the list holds only the entries appended before the failure.
C10_StopsAtFailure ==
    /\ \A k \in 1..Len(calls) :
          Failed(calls[k]) =>
              /\ k = Len(calls)
              /\ pc = "panicked"
    /\ pc = "panicked" =>
          /\ result = <<>>
          /\ Len(panicMsg) = 1
          /\ Len(errors) = i - 1

C10_Witness ==
    /\ pc = "panicked"
    /\ Last(calls).fn = "_OpenSSLError"
    /\ Len(err.stack) = 2
    /\ Len(calls) = 4

=============================================================================
